---- MODULE Spec2Model ----
(***************************************************************************)
(* Crypto Tracker (main.py): the CryptoTracker widget as a state machine.  *)
(* State: the widget's fields (all_data, table rows, cards, search text,   *)
(* view, theme, range dropdown, chart canvas, status label) and the stack  *)
(* of event handlers that are suspended inside QApplication.processEvents  *)
(* or inside a modal QMessageBox (both run a nested event loop).           *)
(* Strings that the code inspects (names, symbols, search text) are        *)
(* sequences of one-character strings.                                     *)
(***************************************************************************)
EXTENDS Integers, Sequences, FiniteSets, TLC

VARIABLES all_data, table, cards, search, view, theme, range, chart,
          status, stack, shown, lastData, lastError

vars == <<all_data, table, cards, search, view, theme, range, chart,
          status, stack, shown, lastData, lastError>>

(***************************************************************************)
(* Bounds of the model.                                                    *)
(***************************************************************************)
MaxCoins == 2
MaxQueryLen == 2
MaxPoints == 3
MaxPrice == 2
MaxDepth == 2
\* the smaller input sets of the specifications that run every handler together
UiCoins == 1
UiQueryLen == 1
UiPoints == 1

(***************************************************************************)
(* Strings.                                                                *)
(***************************************************************************)
Missing == <<"<missing>">>

ToLowerChar(c) ==
    CASE c = "B" -> "b"
      [] c = "E" -> "e"
      [] c = "I" -> "i"
      [] c = "C" -> "c"
      [] c = "T" -> "t"
      [] OTHER -> c

Lower(s) == [i \in 1..Len(s) |-> ToLowerChar(s[i])]

IsSpace(c) == c = " "

RECURSIVE LStrip(_)
LStrip(s) ==
    IF s = <<>> THEN <<>>
    ELSE IF IsSpace(Head(s)) THEN LStrip(Tail(s)) ELSE s

RECURSIVE RStrip(_)
RStrip(s) ==
    IF s = <<>> THEN <<>>
    ELSE IF IsSpace(s[Len(s)]) THEN RStrip(SubSeq(s, 1, Len(s) - 1)) ELSE s

Strip(s) == RStrip(LStrip(s))

\* Python's `a in b` on strings
StrIn(a, b) ==
    \E i \in 0..(Len(b) - Len(a)) : SubSeq(b, i + 1, i + Len(a)) = a

RECURSIVE SeqsUpTo(_, _)
SeqsUpTo(S, n) ==
    IF n = 0 THEN {<<>>}
    ELSE LET shorter == SeqsUpTo(S, n - 1)
         IN  shorter \cup {Append(s, x) : s \in shorter, x \in S}

(***************************************************************************)
(* Market data: entries of the markets response.                           *)
(***************************************************************************)
Bitcoin  == [id |-> "bitcoin",  name |-> <<"B", "i", "t">>, symbol |-> <<"b", "t", "c">>]
Ethereum == [id |-> "ethereum", name |-> <<"E", "t", "h">>, symbol |-> <<"e", "t", "h">>]
InternetComputer ==
    [id |-> "internet-computer", name |-> <<"I", " ", "C">>, symbol |-> <<"i", "c", "p">>]
\* an entry of a decodable body that lacks the "name" and "symbol" keys
BadEntry == [id |-> "bad", name |-> Missing, symbol |-> Missing]

Catalogue == {Bitcoin, Ethereum, InternetComputer}

QueryChars == {"b", "B", "t", " ", "x"}

\* dict.get(key, "")
GetOr(coin, key, dflt) == IF coin[key] = Missing THEN dflt ELSE coin[key]

EmptyRow == [id |-> "<none>", name |-> Missing, symbol |-> Missing]

(***************************************************************************)
(* populate_table_and_cards                                                *)
(***************************************************************************)
SetRowCount(tbl, n) == [i \in 1..n |-> IF i <= Len(tbl) THEN tbl[i] ELSE EmptyRow]

\* index of the first entry on which coin["name"] raises KeyError, 0 if none
FirstBad(data) ==
    IF \E i \in 1..Len(data) : data[i].name = Missing
    THEN CHOOSE i \in 1..Len(data) :
            /\ data[i].name = Missing
            /\ \A j \in 1..(i - 1) : data[j].name # Missing
    ELSE 0

Populate(data, tbl, crd) ==
    LET resized == SetRowCount(tbl, Len(data))
        bad == FirstBad(data)
    IN  IF bad = 0
        THEN [ok |-> TRUE, table |-> data, cards |-> data]
        ELSE [ok |-> FALSE,
              table |-> [i \in 1..Len(data) |-> IF i < bad THEN data[i] ELSE resized[i]],
              cards |-> crd]

(***************************************************************************)
(* filter_table                                                            *)
(***************************************************************************)
Matches(txt, coin) ==
    \/ StrIn(txt, Lower(GetOr(coin, "name", <<>>)))
    \/ StrIn(txt, Lower(GetOr(coin, "symbol", <<>>)))

RECURSIVE FilterLoop(_, _)
FilterLoop(txt, data) ==
    IF data = <<>> THEN <<>>
    ELSE IF Matches(txt, Head(data))
         THEN <<Head(data)>> \o FilterLoop(txt, Tail(data))
         ELSE FilterLoop(txt, Tail(data))

\* variant: the query lower-cased but not stripped
NormalizeNoStripMutant(text) == Lower(text)

Normalize(text) == Strip(Lower(text))

Filtered(text, data) ==
    LET txt == Normalize(text)
    IN  IF txt = <<>> THEN data ELSE FilterLoop(txt, data)

filter_table(text) ==
    LET p == Populate(Filtered(text, all_data), table, cards)
    IN  /\ table' = p.table
        /\ cards' = p.cards

(***************************************************************************)
(* HTTP responses (requests.get ... raise_for_status ... json)             *)
(***************************************************************************)
FailureKinds == {"transport", "http_status", "undecodable"}

\* the coins the markets endpoint lists
Listed == {Bitcoin, Ethereum}

\* decodable bodies with a malformed entry: well-formed entries, then the bad one
MalformedBodies(n) ==
    IF n = 0 THEN {} ELSE {Append(pre, BadEntry) : pre \in SeqsUpTo(Listed, n - 1)}

MarketResponses(n) ==
    {[kind |-> k, body |-> <<>>] : k \in FailureKinds}
        \cup {[kind |-> "json", body |-> b] :
                  b \in SeqsUpTo(Listed, n) \cup MalformedBodies(n)}

\* [epoch-millis, price] pairs
TimeStamps == {1, 2}

PricePairs == {<<t, p>> : t \in TimeStamps, p \in 1..MaxPrice}

\* shape: what the decoded body holds under "prices"
ChartResponses(n) ==
    {[kind |-> k, shape |-> "-", prices |-> <<>>] : k \in FailureKinds}
        \cup {[kind |-> "json", shape |-> sh, prices |-> <<>>] :
                  sh \in {"no_prices_key", "bad_rows"}}
        \cup {[kind |-> "json", shape |-> "pairs", prices |-> ps] :
                  ps \in SeqsUpTo(PricePairs, n)}

\* str(e) of the exception each condition raises
ExcMessage(cause) ==
    CASE cause = "transport"     -> "ConnectionError"
      [] cause = "http_status"   -> "HTTPError"
      [] cause = "undecodable"   -> "JSONDecodeError"
      [] cause = "bad_entry"     -> "KeyError: 'name'"
      [] cause = "no_prices_key" -> "No price data returned"
      [] cause = "empty_prices"  -> "No price data returned"
      [] cause = "bad_rows"      -> "DataFrame shape error"

\* the condition a chart response falls under ("ok" when a chart is drawn)
ChartCause(resp) ==
    IF resp.kind # "json" THEN resp.kind
    ELSE IF resp.shape = "no_prices_key" THEN "no_prices_key"
    ELSE IF resp.shape = "bad_rows" THEN "bad_rows"
    ELSE IF resp.prices = <<>> THEN "empty_prices"
    ELSE "ok"

(***************************************************************************)
(* History transform: DataFrame, pct_change, annotations                   *)
(***************************************************************************)
RangeTexts == {"7 days", "30 days", "90 days", "365 days"}

DaysOf(text) ==
    CASE text = "7 days"   -> 7
      [] text = "30 days"  -> 30
      [] text = "90 days"  -> 90
      [] text = "365 days" -> 365
      [] OTHER             -> 7

\* variant: the change taken relative to the current price
PctChangeOfCurrentMutant(prev, cur) == [num |-> (cur - prev) * 100, den |-> cur]

\* Series.pct_change() * 100: cur / prev - 1, times 100, kept as the exact
\* fraction num/den (den > 0 for positive prices)
PctChange(prev, cur) == [num |-> (cur - prev) * 100, den |-> prev]

\* variant: a strictly positive threshold
MarkStrictMutant(ch) == IF ch.num > 0 THEN "increase" ELSE "decrease"

\* if ch >= 0: lime, up arrow; else: red, down arrow
Mark(ch) == IF ch.num >= 0 THEN "increase" ELSE "decrease"

\* pd.DataFrame(data["prices"], columns=["timestamp", "price"]) and set_index:
\* one row per pair, in the order of the response (nothing sorts them)
Frame(prices) ==
    [i \in 1..Len(prices) |-> [timestamp |-> prices[i][1], price |-> prices[i][2]]]

Annotations(df) ==
    [k \in 1..(Len(df) - 1) |->
        LET i == k + 1
            ch == PctChange(df[i - 1].price, df[i].price)
        IN  [i |-> i, at |-> df[i], ch |-> ch, mark |-> Mark(ch)]]

Draw(coin_name, days, prices) ==
    LET df == Frame(prices)
    IN  [drawn |-> TRUE, coin |-> coin_name, days |-> days,
         points |-> df, annots |-> Annotations(df)]

BlankChart == [drawn |-> FALSE, coin |-> <<>>, days |-> 0, points |-> <<>>, annots |-> <<>>]

(***************************************************************************)
(* Handlers suspended in a nested event loop                               *)
(***************************************************************************)
Top == stack[Len(stack)]

Pop == SubSeq(stack, 1, Len(stack) - 1)

LoadFrame ==
    [op |-> "load_data", pc |-> "processEvents", superseded |-> FALSE,
     coin_id |-> "", coin_name |-> <<>>, days |-> 0, title |-> "", text |-> ""]

ChartFrame(item, days) ==
    [op |-> "on_coin_selected", pc |-> "processEvents", superseded |-> FALSE,
     coin_id |-> item.id, coin_name |-> item.name, days |-> days,
     title |-> "", text |-> ""]

\* every load_data already on the stack now has a newer load_data after it
MarkSuperseded(stk) ==
    [i \in 1..Len(stk) |->
        IF stk[i].op = "load_data" THEN [stk[i] EXCEPT !.superseded = TRUE] ELSE stk[i]]

\* QMessageBox.critical(self, title, text): the handler waits in the dialog
Critical(title, cause) ==
    /\ stack' = [stack EXCEPT ![Len(stack)] =
                    [@ EXCEPT !.pc = "msgbox", !.title = title, !.text = ExcMessage(cause)]]
    /\ lastError' = IF Top.op = "on_coin_selected"
                    THEN [title |-> title, text |-> ExcMessage(cause), cause |-> cause]
                    ELSE lastError

Status(kind, n, coin) == [kind |-> kind, n |-> n, coin |-> coin]

\* events of the main window reach a handler from the event loop or processEvents
UserCanAct == shown /\ (IF stack = <<>> THEN TRUE ELSE Top.pc = "processEvents")

\* the timer also fires in the event loop of a modal dialog
TimerCanFire == IF stack = <<>> THEN shown ELSE TRUE

(***************************************************************************)
(* load_data                                                               *)
(***************************************************************************)
LoadDataBegin ==
    /\ Len(stack) < MaxDepth
    /\ status' = Status("Fetching market data...", 0, <<>>)
    /\ stack' = Append(MarkSuperseded(stack), LoadFrame)
    /\ UNCHANGED <<all_data, table, cards, search, view, theme, range, chart,
                   shown, lastData, lastError>>

RefreshClicked == UserCanAct /\ LoadDataBegin

TimerTick == TimerCanFire /\ LoadDataBegin

\* variant: the response appended to the previous snapshot
SnapshotMergeMutant(old, data) == old \o data

\* self.all_data = data
Snapshot(old, data) == data

LoadDataFetch(responses) ==
    /\ stack # <<>>
    /\ Top.op = "load_data"
    /\ Top.pc = "processEvents"
    /\ \E resp \in responses :
        /\ IF resp.kind # "json"
           THEN /\ Critical("Error", resp.kind)
                /\ UNCHANGED <<all_data, table, cards, status, lastData>>
           ELSE LET data == resp.body
                    p == Populate(data, table, cards)
                IN  /\ lastData' = data
                    /\ all_data' = Snapshot(all_data, data)
                    /\ table' = p.table
                    /\ cards' = p.cards
                    /\ IF p.ok
                       THEN /\ status' = Status("Last update: fetched", Len(data), <<>>)
                            /\ stack' = Pop
                            /\ UNCHANGED lastError
                       ELSE /\ Critical("Error", "bad_entry")
                            /\ UNCHANGED status
    /\ UNCHANGED <<search, view, theme, range, chart, shown>>

\* the user dismisses the dialog; the except branch sets the status label
MsgBoxClose ==
    /\ stack # <<>>
    /\ Top.pc = "msgbox"
    /\ status' = IF Top.op = "load_data"
                 THEN Status("Failed to fetch data", 0, <<>>)
                 ELSE Status("Failed to load chart", 0, <<>>)
    /\ stack' = Pop
    /\ UNCHANGED <<all_data, table, cards, search, view, theme, range, chart,
                   shown, lastData, lastError>>

(***************************************************************************)
(* on_coin_selected                                                        *)
(***************************************************************************)
OnCoinSelectedBegin(row) ==
    LET item == table[row]
    IN  IF item = EmptyRow
        THEN UNCHANGED vars
        ELSE /\ Len(stack) < MaxDepth
             /\ status' = Status("Fetching chart for", 0, item.name)
             /\ stack' = Append(stack, ChartFrame(item, DaysOf(range)))
             /\ UNCHANGED <<all_data, table, cards, search, view, theme, range,
                            chart, shown, lastData, lastError>>

CellClicked ==
    /\ UserCanAct
    /\ \E row \in 1..Len(table) : OnCoinSelectedBegin(row)

\* _card_clicked: the first table row that holds the card's coin id
CardClicked ==
    /\ UserCanAct
    /\ \E c \in 1..Len(cards) :
        LET rows == {r \in 1..Len(table) : table[r].id = cards[c].id}
        IN  IF rows = {}
            THEN UNCHANGED vars
            ELSE OnCoinSelectedBegin(CHOOSE r \in rows : \A q \in rows : r <= q)

OnCoinSelectedFetch(responses) ==
    /\ stack # <<>>
    /\ Top.op = "on_coin_selected"
    /\ Top.pc = "processEvents"
    /\ \E resp \in responses :
        LET cause == ChartCause(resp)
        IN  IF cause # "ok"
            THEN /\ Critical("Error loading chart", cause)
                 /\ UNCHANGED <<chart, status>>
            ELSE /\ chart' = Draw(Top.coin_name, Top.days, resp.prices)
                 /\ status' = Status("Showing chart for", Top.days, Top.coin_name)
                 /\ stack' = Pop
                 /\ UNCHANGED lastError
    /\ UNCHANGED <<all_data, table, cards, search, view, theme, range, shown, lastData>>

(***************************************************************************)
(* Other widgets                                                           *)
(***************************************************************************)
\* QLineEdit.textChanged -> filter_table(text)
SearchTextChanged(texts) ==
    /\ UserCanAct
    /\ \E text \in texts :
        /\ text # search
        /\ search' = text
        /\ filter_table(text)
    /\ UNCHANGED <<all_data, view, theme, range, chart, status, stack, shown,
                   lastData, lastError>>

toggle_view ==
    /\ UserCanAct
    /\ view' = IF view = 0 THEN 1 ELSE 0
    /\ UNCHANGED <<all_data, table, cards, search, theme, range, chart, status,
                   stack, shown, lastData, lastError>>

toggle_theme ==
    /\ UserCanAct
    /\ theme' = IF theme = "dark" THEN "light" ELSE "dark"
    /\ UNCHANGED <<all_data, table, cards, search, view, range, chart, status,
                   stack, shown, lastData, lastError>>

\* the range dropdown has no signal connected: only its current text changes
RangeChanged ==
    /\ UserCanAct
    /\ \E t \in RangeTexts : t # range /\ range' = t
    /\ UNCHANGED <<all_data, table, cards, search, view, theme, chart, status,
                   stack, shown, lastData, lastError>>

\* main(): w.showMaximized() once the constructor has returned
ShowWindow ==
    /\ ~shown
    /\ stack = <<>>
    /\ shown' = TRUE
    /\ UNCHANGED <<all_data, table, cards, search, view, theme, range, chart,
                   status, stack, lastData, lastError>>

(***************************************************************************)
(* The application: __init__ up to its call of load_data, then events      *)
(***************************************************************************)
NoError == [title |-> "", text |-> "", cause |-> "none"]

Init ==
    /\ all_data = <<>>
    /\ table = <<>>
    /\ cards = <<>>
    /\ search = <<>>
    /\ view = 0
    /\ theme = "dark"
    /\ range = "7 days"
    /\ chart = BlankChart
    /\ status = Status("Fetching market data...", 0, <<>>)
    /\ stack = <<LoadFrame>>
    /\ shown = FALSE
    /\ lastData = <<>>
    /\ lastError = NoError

Next ==
    \/ RefreshClicked
    \/ TimerTick
    \/ LoadDataFetch(MarketResponses(UiCoins))
    \/ MsgBoxClose
    \/ CellClicked
    \/ CardClicked
    \/ OnCoinSelectedFetch(ChartResponses(UiPoints))
    \/ SearchTextChanged(SeqsUpTo(QueryChars, UiQueryLen))
    \/ toggle_view
    \/ toggle_theme
    \/ RangeChanged
    \/ ShowWindow

Spec == Init /\ [][Next]_vars

(***************************************************************************)
(* The snapshot fetcher alone: initial load, refresh, timer, dialog        *)
(***************************************************************************)
NextSnapshot ==
    \/ RefreshClicked
    \/ TimerTick
    \/ LoadDataFetch(MarketResponses(MaxCoins))
    \/ MsgBoxClose
    \/ ShowWindow

SpecSnapshot == Init /\ [][NextSnapshot]_vars

(***************************************************************************)
(* Snapshot fetcher, search box and the view and theme toggles             *)
(***************************************************************************)
NextSearch ==
    \/ RefreshClicked
    \/ TimerTick
    \/ LoadDataFetch(MarketResponses(UiCoins))
    \/ MsgBoxClose
    \/ SearchTextChanged(SeqsUpTo(QueryChars, UiQueryLen))
    \/ toggle_view
    \/ toggle_theme
    \/ ShowWindow

SpecSearch == Init /\ [][NextSearch]_vars

\* the window after a successful load of `data`, idle in the event loop
Loaded(data) ==
    /\ all_data = data
    /\ table = data
    /\ cards = data
    /\ search = <<>>
    /\ view = 0
    /\ theme = "dark"
    /\ chart = BlankChart
    /\ shown = TRUE
    /\ lastData = data
    /\ lastError = NoError

(***************************************************************************)
(* filter_table over every snapshot list and every search text             *)
(***************************************************************************)
InitFilter ==
    \E data \in SeqsUpTo(Catalogue, MaxCoins) :
        /\ Loaded(data)
        /\ range = "7 days"
        /\ status = Status("Last update: fetched", Len(data), <<>>)
        /\ stack = <<>>

NextFilter == SearchTextChanged(SeqsUpTo(QueryChars, MaxQueryLen))

SpecFilter == InitFilter /\ [][NextFilter]_vars

(***************************************************************************)
(* The history fetcher: row and card clicks, range dropdown, dialog        *)
(***************************************************************************)
InitHistory ==
    /\ Loaded(<<Bitcoin, Ethereum>>)
    /\ range = "7 days"
    /\ status = Status("Last update: fetched", 2, <<>>)
    /\ stack = <<>>

NextHistory ==
    \/ CellClicked
    \/ CardClicked
    \/ RangeChanged
    \/ OnCoinSelectedFetch(ChartResponses(UiPoints))
    \/ MsgBoxClose

SpecHistory == InitHistory /\ [][NextHistory]_vars

(***************************************************************************)
(* The history transform over every price series: on_coin_selected has     *)
(* been called for a row and waits in processEvents                        *)
(***************************************************************************)
InitTransform ==
    /\ Loaded(<<Bitcoin, Ethereum>>)
    /\ \E r \in RangeTexts, row \in {1, 2} :
        /\ range = r
        /\ status = Status("Fetching chart for", 0, <<Bitcoin, Ethereum>>[row].name)
        /\ stack = <<ChartFrame(<<Bitcoin, Ethereum>>[row], DaysOf(r))>>

NextTransform ==
    \/ OnCoinSelectedFetch(ChartResponses(MaxPoints))
    \/ MsgBoxClose

SpecTransform == InitTransform /\ [][NextTransform]_vars

(***************************************************************************)
(* Properties                                                              *)
(***************************************************************************)
\* a handler on top of the stack has just called QMessageBox.critical
DialogOpened ==
    /\ stack # <<>>
    /\ Len(stack') = Len(stack)
    /\ Top.pc = "processEvents"
    /\ stack'[Len(stack)].pc = "msgbox"

WellFormed(data) == \A i \in 1..Len(data) : data[i] \in Catalogue

\* C1: a fetch that fails (the step that reports the error) leaves the last
\* snapshot, the displayed rows and cards and the drawn chart as they were,
\* and reports exactly one error (one dialog, on the failing handler).
C1_FailedFetchChangesNothing ==
    [][DialogOpened =>
        /\ all_data' = all_data
        /\ table' = table
        /\ cards' = cards
        /\ chart' = chart]_vars

\* C2: the result of a load_data that was superseded by a later load_data
\* (issued while the first waited in processEvents) is discarded: when the
\* superseded handler receives its response and returns, it changes neither
\* the snapshot nor the views.
C2_SupersededResultDiscarded ==
    [][(/\ stack # <<>>
        /\ Top.op = "load_data"
        /\ Top.pc = "processEvents"
        /\ Top.superseded
        /\ Len(stack') < Len(stack))
       =>
        /\ all_data' = all_data
        /\ table' = table
        /\ cards' = cards]_vars

\* C3: whatever the operations so far, the coins displayed in the table and
\* the cards are the filter of the last fetched snapshot by the text now in
\* the search box.
C3_DisplayIsFilterOfSnapshot ==
    WellFormed(all_data) =>
        /\ table = Filtered(search, all_data)
        /\ cards = Filtered(search, all_data)

\* lower-casing and trimming, stated without the model's operators
LowerCased(s) == [i \in 1..Len(s) |-> ToLowerChar(s[i])]

Trimmed(s) ==
    LET inked == {i \in 1..Len(s) : s[i] # " "}
    IN  IF inked = {} THEN <<>>
        ELSE SubSeq(s, CHOOSE a \in inked : \A b \in inked : a <= b,
                       CHOOSE a \in inked : \A b \in inked : a >= b)

Contains(q, coin) ==
    \/ StrIn(q, LowerCased(coin.name))
    \/ StrIn(q, LowerCased(coin.symbol))

FetchErrorCauses == {"transport", "http_status", "undecodable", "no_prices_key", "bad_rows"}

\* C5: a well-formed response with an empty prices series is never reported
\* as the same error (dialog title and message) as a transport failure, a
\* non-success status or a body that cannot be decoded into a price series.
C5_NoDataDistinctFromFetchError ==
    [][(/\ DialogOpened
        /\ Top.op = "on_coin_selected"
        /\ \/ lastError.cause = "empty_prices" /\ lastError'.cause \in FetchErrorCauses
           \/ lastError'.cause = "empty_prices" /\ lastError.cause \in FetchErrorCauses)
       =>
        <<lastError'.title, lastError'.text>> # <<lastError.title, lastError.text>>]_vars

\* C6: the points of a drawn chart are in ascending order of timestamp.
C6_PointsAscending ==
    chart.drawn =>
        \A i, j \in 1..Len(chart.points) :
            i < j => chart.points[i].timestamp <= chart.points[j].timestamp

\* C7: a drawn series of M >= 2 points carries exactly M-1 percentage
\* changes, one for each index 2..M (none for the first point), each equal
\* to (p[i] - p[i-1]) / p[i-1] * 100.
C7_PctChanges ==
    (chart.drawn /\ Len(chart.points) >= 2) =>
        LET p == chart.points
            a == chart.annots
        IN  /\ Len(a) = Len(p) - 1
            /\ \A k \in 1..Len(a) :
                /\ a[k].i = k + 1
                /\ a[k].at = p[k + 1]
                /\ a[k].ch.den > 0
                /\ a[k].ch.num * p[k].price
                      = (p[k + 1].price - p[k].price) * 100 * a[k].ch.den

C7_Witness ==
    /\ chart.drawn
    /\ Len(chart.points) = 3
    /\ Len(chart.annots) = 2
    /\ chart.annots[1].ch.num > 0
    /\ chart.annots[2].ch.num < 0

\* C8: every point after the first is marked increase or decrease: increase
\* when the price is not below its predecessor's (change >= 0, zero
\* included), decrease when it is below.
C8_ZeroIsIncrease ==
    chart.drawn =>
        /\ Len(chart.annots) = Len(chart.points) - 1
        /\ \A k \in 1..Len(chart.annots) :
            LET prev == chart.points[k].price
                cur == chart.points[k + 1].price
            IN  /\ chart.annots[k].mark \in {"increase", "decrease"}
                /\ cur >= prev => chart.annots[k].mark = "increase"
                /\ cur < prev => chart.annots[k].mark = "decrease"

C8_Witness ==
    /\ chart.drawn
    /\ \E k \in 1..Len(chart.annots) :
        /\ chart.points[k].price = chart.points[k + 1].price
        /\ chart.annots[k].ch.num = 0
        /\ chart.annots[k].mark = "increase"

\* C9: after a successful fetch of a well-formed markets response the last
\* snapshot is the response itself: same length, same order, nothing kept
\* of the previous snapshot.
C9_SnapshotIsResponse ==
    WellFormed(lastData) =>
        /\ all_data = lastData
        /\ Len(all_data) = Len(lastData)
        /\ table = lastData
        /\ cards = lastData

C9_Witness ==
    /\ stack = <<>>
    /\ shown
    /\ lastData = <<Ethereum, Bitcoin>>
    /\ all_data = <<Ethereum, Bitcoin>>
    /\ status = Status("Last update: fetched", 2, <<>>)

\* C10: changing the range dropdown while a chart is shown issues a history
\* fetch for the charted coin and the newly selected range.
C10_RangeChangeIssuesFetch ==
    [][(stack = <<>> /\ chart.drawn /\ range' # range)
       =>
        /\ Len(stack') = 1
        /\ stack'[1].op = "on_coin_selected"
        /\ stack'[1].coin_name = chart.coin
        /\ stack'[1].days = DaysOf(range')]_vars

====
